---------------------------- MODULE Spec2Model ----------------------------
(***************************************************************************)
(* A model of tacacs_plus/packet.py: the 12-byte TACACS+ header codec      *)
(* (TACACSHeader.packed / TACACSHeader.unpacked), the MD5-chained          *)
(* pseudo-pad obfuscation (crypt) and the packet composition               *)
(* (TACACSPacket.body / __bytes__).                                        *)
(*                                                                         *)
(* Bytes are naturals in 0..255 and byte strings are sequences of bytes.   *)
(* TLC's integers are 32-bit signed, so the 32-bit words of MD5 are kept   *)
(* as pairs <<high 16 bits, low 16 bits>>, and the 32-bit header fields    *)
(* the model explores stay below 2^31.                                     *)
(***************************************************************************)
EXTENDS Integers, Sequences, FiniteSets, TLC

VARIABLES
    op,          \* the operation that produced the current state
    header,      \* the TACACSHeader in hand (its six fields)
    body_bytes,  \* TACACSPacket.body_bytes / crypt's body_bytes argument
    secret,      \* TACACSPacket.secret: None or a string of code points 0..255
    raw,         \* the byte string handed to TACACSHeader.unpacked
    out,         \* the bytes the last operation returned
    ret,         \* what TACACSHeader.unpacked returned or raised
    loc          \* crypt's locals at its return, and what earlier calls returned

vars == <<op, header, body_bytes, secret, raw, out, ret, loc>>

----------------------------------------------------------------------------
(* Bytes and byte strings *)

Min(a, b) == IF a <= b THEN a ELSE b

\* Python's slice s[0:n] for n >= 0
Take(s, n) == SubSeq(s, 1, Min(n, Len(s)))

\* what remains of s after its first n elements: s[n:]
Drop(s, n) == SubSeq(s, Min(n, Len(s)) + 1, Len(s))

\* Only({e : x \in {v}}) is e with x standing for the value of v, which is
\* then computed once however often e reads x
Only(S) == CHOOSE x \in S : TRUE

\* bit k of the natural x, as a truth value
Bit(x, k) == (x \div 2^k) % 2 = 1

\* x | y on bytes, where the code has x ^ y
XorAsOr(x, y) ==
    LET f[k \in 0 .. 8] ==
            IF k = 8 THEN 0
            ELSE (IF Bit(x, k) \/ Bit(y, k) THEN 2^k ELSE 0) + f[k + 1]
    IN  f[0]

\* x ^ y on bytes
Xor(x, y) ==
    LET f[k \in 0 .. 8] ==
            IF k = 8 THEN 0
            ELSE (IF Bit(x, k) # Bit(y, k) THEN 2^k ELSE 0) + f[k + 1]
    IN  f[0]

----------------------------------------------------------------------------
(* hashlib.md5(data).digest(): RFC 1321 on 32-bit words <<hi, lo>> *)

MD5_K ==
    <<
       <<55146, 42104>>, <<59591, 46934>>, <<9248, 28891>>, <<49597, 52974>>,
       <<62844, 4015>>, <<18311, 50730>>, <<43056, 17939>>, <<64838, 38145>>,
       <<27008, 39128>>, <<35652, 63407>>, <<65535, 23473>>, <<35164, 55230>>,
       <<27536, 4386>>, <<64920, 29075>>, <<42617, 17294>>, <<18868, 2081>>,
       <<63006, 9570>>, <<49216, 45888>>, <<9822, 23121>>, <<59830, 51114>>,
       <<54831, 4189>>, <<580, 5203>>, <<55457, 59009>>, <<59347, 64456>>,
       <<8673, 52710>>, <<49975, 2006>>, <<62677, 3463>>, <<17754, 5357>>,
       <<43491, 59653>>, <<64751, 41976>>, <<26479, 729>>, <<36138, 19594>>,
       <<65530, 14658>>, <<34673, 63105>>, <<28061, 24866>>, <<64997, 14348>>,
       <<42174, 59972>>, <<19422, 53161>>, <<63163, 19296>>, <<48831, 48240>>,
       <<10395, 32454>>, <<60065, 10234>>, <<54511, 12421>>, <<1160, 7429>>,
       <<55764, 53305>>, <<59099, 39397>>, <<8098, 31992>>, <<50348, 22117>>,
       <<62505, 8772>>, <<17194, 65431>>, <<43924, 9127>>, <<64659, 41017>>,
       <<25947, 22979>>, <<36620, 52370>>, <<65519, 62589>>, <<34180, 24017>>,
       <<28584, 32335>>, <<65068, 59104>>, <<41729, 17172>>, <<19976, 4513>>,
       <<63315, 32386>>, <<48442, 62005>>, <<10967, 53947>>, <<60294, 54161>>
    >>

MD5_S ==
    <<
       7, 12, 17, 22, 7, 12, 17, 22, 7, 12, 17, 22, 7, 12, 17, 22,
       5, 9, 14, 20, 5, 9, 14, 20, 5, 9, 14, 20, 5, 9, 14, 20,
       4, 11, 16, 23, 4, 11, 16, 23, 4, 11, 16, 23, 4, 11, 16, 23,
       6, 10, 15, 21, 6, 10, 15, 21, 6, 10, 15, 21, 6, 10, 15, 21
    >>

MD5_Init == << <<26437, 8961>>, <<61389, 43913>>, <<39098, 56574>>, <<4146, 21622>> >>

\* addition modulo 2^32
WAdd(x, y) ==
    LET lo == x[2] + y[2]
        hi == x[1] + y[1] + (lo \div 65536)
    IN  <<hi % 65536, lo % 65536>>

\* rotation to the left by s bits, 0 < s < 32
WRotl(x, s) ==
    LET hi == IF s >= 16 THEN x[2] ELSE x[1]
        lo == IF s >= 16 THEN x[1] ELSE x[2]
        r  == s % 16
    IN  <<((hi * 2^r) % 65536) + (lo \div 2^(16 - r)),
          ((lo * 2^r) % 65536) + (hi \div 2^(16 - r))>>

\* the round function of step i (0-based) on one bit of b, c and d
MD5_FBit(i, b, c, d) ==
    IF i < 16 THEN (b /\ c) \/ (~b /\ d)
    ELSE IF i < 32 THEN (d /\ b) \/ (~d /\ c)
    ELSE IF i < 48 THEN (b # c) # d
    ELSE c # (b \/ ~d)

\* the round function of step i on one 16-bit half of b, c and d
MD5_F(i, b, c, d) ==
    LET f[k \in 0 .. 16] ==
            IF k = 16 THEN 0
            ELSE (IF MD5_FBit(i, Bit(b, k), Bit(c, k), Bit(d, k)) THEN 2^k ELSE 0)
                     + f[k + 1]
    IN  f[0]

\* the message word step i reads
MD5_G(i) ==
    IF i < 16 THEN i
    ELSE IF i < 32 THEN (5 * i + 1) % 16
    ELSE IF i < 48 THEN (3 * i + 5) % 16
    ELSE (7 * i) % 16

\* step i on the state st = <<A, B, C, D>> with the block's words M
MD5_Step(i, st, M) ==
    Only({ <<st[4], WAdd(st[2], WRotl(T, MD5_S[i + 1])), st[2], st[3]>> :
           T \in { WAdd(WAdd(WAdd(F, st[1]), MD5_K[i + 1]), M[MD5_G(i) + 1]) :
                   F \in { <<MD5_F(i, st[2][1], st[3][1], st[4][1]),
                             MD5_F(i, st[2][2], st[3][2], st[4][2])>> } } })

RECURSIVE MD5_Steps(_, _, _, _)
\* steps lo .. hi - 1 in order: the first half of them, then the second half
\* on the state the first half leaves
MD5_Steps(lo, hi, st, M) ==
    IF hi = lo + 1 THEN MD5_Step(lo, st, M)
    ELSE Only({ MD5_Steps((lo + hi) \div 2, hi, half, M) :
                half \in { MD5_Steps(lo, (lo + hi) \div 2, st, M) } })

\* the message followed by 0x80, zeros up to 56 mod 64, and its bit length
\* as a 64-bit little-endian integer
MD5_Pad(msg) ==
    LET n     == Len(msg)
        zeros == (55 - n) % 64
        bits  == n * 8
    IN  msg \o <<128>> \o [i \in 1 .. zeros |-> 0]
            \o <<bits % 256, (bits \div 256) % 256, (bits \div 65536) % 256,
                 (bits \div 16777216) % 256, 0, 0, 0, 0>>

\* the 16 little-endian words of block k (0-based) of the padded message p
MD5_Block(p, k) ==
    [j \in 1 .. 16 |->
        LET o == 64 * k + 4 * (j - 1)
        IN  <<p[o + 4] * 256 + p[o + 3], p[o + 2] * 256 + p[o + 1]>>]

\* the state st after block M: each word plus what the 64 steps make of it
MD5_Compress(st, M) ==
    Only({ <<WAdd(st[1], r[1]), WAdd(st[2], r[2]), WAdd(st[3], r[3]), WAdd(st[4], r[4])>> :
           r \in { MD5_Steps(0, 64, st, M) } })

RECURSIVE MD5_Blocks(_, _, _)
\* the blocks of the padded message p from block k on
MD5_Blocks(p, k, st) ==
    IF 64 * k >= Len(p) THEN st
    ELSE Only({ MD5_Blocks(p, k + 1, nxt) :
                nxt \in { MD5_Compress(st, M) : M \in { MD5_Block(p, k) } } })

\* a word as 4 bytes, least significant first
MD5_WordBytes(w) == <<w[2] % 256, w[2] \div 256, w[1] % 256, w[1] \div 256>>

md5(data) ==
    Only({ MD5_WordBytes(st[1]) \o MD5_WordBytes(st[2])
               \o MD5_WordBytes(st[3]) \o MD5_WordBytes(st[4]) :
           st \in { MD5_Blocks(p, 0, MD5_Init) : p \in { MD5_Pad(data) } } })

----------------------------------------------------------------------------
(* struct.pack / struct.unpack and six.BytesIO, as packet.py uses them *)

\* struct.pack('B', x): one unsigned byte
struct_pack_B(x) == <<x>>

\* struct.pack('<I', x): least significant byte first, where the code asks
\* for network order
struct_pack_I_LittleEndian(x) ==
    <<x % 256, (x \div 256) % 256, (x \div 65536) % 256, (x \div 16777216) % 256>>

\* struct.pack('!I', x): unsigned 32-bit, network order (big-endian)
struct_pack_I(x) ==
    <<(x \div 16777216) % 256, (x \div 65536) % 256, (x \div 256) % 256, x % 256>>

\* one '!I' item of struct.unpack, read from the 4 bytes of b that start at
\* index i (1-based)
struct_unpack_I(b, i) ==
    ((b[i] * 256 + b[i + 1]) * 256 + b[i + 2]) * 256 + b[i + 3]

\* six.BytesIO(raw).read(n) with the stream at position pos: the bytes that
\* are there, at most n of them
BytesIO_read(stream, pos, n) == SubSeq(stream, pos + 1, Min(pos + n, Len(stream)))

\* six.b(secret): the byte of each character (latin-1; every character of
\* the secrets explored is below 256)
six_b(s) == [i \in 1 .. Len(s) |-> s[i]]

----------------------------------------------------------------------------
(* class TACACSHeader *)

TACACSHeader(version, type, session_id, length, seq_no, flags) ==
    [version |-> version, type |-> type, session_id |-> session_id,
     length |-> length, seq_no |-> seq_no, flags |-> flags]

\* stands where no header was returned
NoHeader == TACACSHeader(-1, -1, -1, -1, -1, -1)

\* the four byte fields in the order version, type, flags, seq_no
packed_FlagsBeforeSeqNo(h) ==
    <<h.version, h.type, h.flags, h.seq_no>>
        \o struct_pack_I(h.session_id) \o struct_pack_I(h.length)

\* TACACSHeader.packed
packed(h) ==
    <<h.version, h.type, h.seq_no, h.flags>>
        \o struct_pack_I(h.session_id) \o struct_pack_I(h.length)

\* unpacked that reads length before session_id
unpacked_LengthFirst(stream) ==
    LET raw_chars == BytesIO_read(stream, 0, 4)
        rest      == BytesIO_read(stream, 4, 8)
    IN  IF raw_chars # <<>>
        THEN IF Len(raw_chars) # 4
             THEN [exc |-> "struct.error", hdr |-> NoHeader, pos |-> Len(raw_chars)]
             ELSE IF Len(rest) # 8
             THEN [exc |-> "struct.error", hdr |-> NoHeader, pos |-> 4 + Len(rest)]
             ELSE [exc |-> "none",
                   hdr |-> TACACSHeader(raw_chars[1], raw_chars[2],
                                        struct_unpack_I(rest, 5),
                                        struct_unpack_I(rest, 1),
                                        raw_chars[3], raw_chars[4]),
                   pos |-> 12]
        ELSE [exc |-> "ValueError", hdr |-> NoHeader, pos |-> 0]

\* unpacked whose second read takes all that is left of the stream
unpacked_ReadsAll(stream) ==
    LET raw_chars == BytesIO_read(stream, 0, 4)
        rest      == BytesIO_read(stream, 4, Len(stream))
    IN  IF raw_chars # <<>>
        THEN IF Len(raw_chars) # 4
             THEN [exc |-> "struct.error", hdr |-> NoHeader, pos |-> Len(raw_chars)]
             ELSE IF Len(rest) # 8
             THEN [exc |-> "struct.error", hdr |-> NoHeader, pos |-> 4 + Len(rest)]
             ELSE [exc |-> "none",
                   hdr |-> TACACSHeader(raw_chars[1], raw_chars[2],
                                        struct_unpack_I(rest, 1),
                                        struct_unpack_I(rest, 5),
                                        raw_chars[3], raw_chars[4]),
                   pos |-> 12]
        ELSE [exc |-> "ValueError", hdr |-> NoHeader, pos |-> 0]

\* TACACSHeader.unpacked: the header returned (exc = "none") or the exception
\* raised, and where the stream then stands.  struct.unpack raises
\* struct.error unless its buffer has exactly the size of the format.
unpacked(stream) ==
    LET raw_chars == BytesIO_read(stream, 0, 4)
        rest      == BytesIO_read(stream, 4, 8)
    IN  IF raw_chars # <<>>
        THEN IF Len(raw_chars) # 4
             THEN [exc |-> "struct.error", hdr |-> NoHeader, pos |-> Len(raw_chars)]
             ELSE IF Len(rest) # 8
             THEN [exc |-> "struct.error", hdr |-> NoHeader, pos |-> 4 + Len(rest)]
             ELSE [exc |-> "none",
                   hdr |-> TACACSHeader(raw_chars[1], raw_chars[2],
                                        struct_unpack_I(rest, 1),
                                        struct_unpack_I(rest, 5),
                                        raw_chars[3], raw_chars[4]),
                   pos |-> 12]
        ELSE [exc |-> "ValueError", hdr |-> NoHeader, pos |-> 0]

----------------------------------------------------------------------------
(* crypt(header, body_bytes, secret) *)

\* lines 47-52: session_id, secret, version, seq_no
crypt_unhashed(h, s) ==
    struct_pack_I(h.session_id) \o six_b(s)
        \o struct_pack_B(h.version) \o struct_pack_B(h.seq_no)

\* the hash of one turn of the loop taken over unhashed alone, the previous
\* hash left out
crypt_rehash_Unchained(unhashed, hashed) == md5(unhashed)

\* line 58: the hash of one turn of the loop
crypt_rehash(unhashed, hashed) == md5(unhashed \o hashed)

RECURSIVE crypt_loop(_, _, _, _)
\* lines 57-61: the while True loop, entered with the pad so far
crypt_loop(unhashed, hashed, pad, body_length) ==
    Only({ IF Len(pad) + Len(rehashed) >= body_length
           THEN pad \o rehashed
           ELSE Only({ crypt_loop(unhashed, rehashed, longer, body_length) :
                       longer \in { pad \o rehashed } }) :
           rehashed \in { crypt_rehash(unhashed, hashed) } })

\* lines 53-61: the pad before it is cut to the body's length
crypt_pad(unhashed, body_length) ==
    Only({ IF Len(hashed) < body_length
           THEN crypt_loop(unhashed, hashed, hashed, body_length)
           ELSE hashed :
           hashed \in { md5(unhashed) } })

\* the pad left as long as the hashes made it
crypt_truncate_Missing(pad, body_length) == pad

\* line 63: pad[0:(body_length)]
crypt_truncate(pad, body_length) == Take(pad, body_length)

\* lines 66-68: turn i of the loop appends body byte i xor pad.pop(0), which
\* is pad byte i; popping from the empty list raises IndexError, and what
\* the loop did not pop stays in pad
crypt_xor(b, pad) ==
    IF Len(pad) < Len(b)
    THEN [exc |-> "IndexError",
          packet_body |-> [i \in 1 .. Len(pad) |-> Xor(b[i], pad[i])],
          pad |-> <<>>]
    ELSE [exc |-> "none",
          packet_body |-> [i \in 1 .. Len(b) |-> Xor(b[i], pad[i])],
          pad |-> Drop(pad, Len(b))]

\* what crypt returns or raises, with its locals beside it: the pad after
\* line 63, what the loop left of it, and the number of hashes made
crypt_return(full, pad, r) ==
    [exc      |-> r.exc,
     value    |-> IF r.exc = "none" THEN r.packet_body ELSE <<>>,
     pad      |-> pad,
     pad_left |-> r.pad,
     hashes   |-> Len(full) \div 16]

\* crypt(header, body_bytes, secret), lines 46-70
crypt_run(h, b, s) ==
    Only({ Only({ Only({ crypt_return(full, pad, r) :
                         r \in { crypt_xor(body, pad) : body \in {b} } }) :
                  pad \in { crypt_truncate(full, Len(b)) } }) :
           full \in { crypt_pad(unhashed, Len(b)) :
                      unhashed \in { crypt_unhashed(h, s) } } })

crypt(h, b, s) == crypt_run(h, b, s).value

----------------------------------------------------------------------------
(* class TACACSPacket *)

\* Python's None, for a secret
None == <<-1>>

TACACSPacket(h, b, s) == [header |-> h, body_bytes |-> b, secret |-> s]

\* the truth value of the secret, which is false for the empty secret too
encrypted_Truthy(p) == p.secret # None /\ p.secret # <<>>

\* TACACSPacket.encrypted
encrypted(p) == p.secret # None

\* TACACSPacket.crypt
TACACSPacket_crypt(p) == crypt(p.header, p.body_bytes, p.secret)

\* TACACSPacket.body
body(p) == IF encrypted(p) THEN TACACSPacket_crypt(p) ELSE p.body_bytes

\* the header obfuscated along with the body
TACACSPacket_bytes_WholeObfuscated(p) ==
    IF encrypted(p)
    THEN crypt(p.header, packed(p.header) \o p.body_bytes, p.secret)
    ELSE packed(p.header) \o p.body_bytes

\* TACACSPacket.__bytes__
TACACSPacket_bytes(p) == packed(p.header) \o body(p)

----------------------------------------------------------------------------
(* The inputs explored *)

\* the longest body handed to crypt
MaxBodyLen == 49

\* the longest byte string handed to TACACSHeader.unpacked
MaxRawLen == 14

\* headers with every field inside its range; the 32-bit fields stay below
\* 2^31
Headers ==
    { TACACSHeader(v, t, sid, len, seq, fl) :
        v \in {0, 193, 255}, t \in {1, 255},
        sid \in {0, 1, 305419896, 2147483647},
        len \in {0, 5, 16909060, 2147483647},
        seq \in {1, 255}, fl \in {0, 4} }

\* the first 12 bytes of the byte strings decoded
RawHeads ==
    { <<193, 1, 1, 0, 18, 52, 86, 120, 0, 0, 0, 5>>,
      <<0, 0, 0, 0, 0, 0, 0, 0, 0, 0, 0, 0>>,
      <<255, 254, 253, 252, 127, 255, 0, 255, 1, 2, 3, 4>> }

\* n bytes: those of head, then body bytes that depend on the position
RawOf(head, n) ==
    [i \in 1 .. n |-> IF i <= Len(head) THEN head[i] ELSE (i * 29 + head[1]) % 256]

Raws == { RawOf(head, n) : head \in RawHeads, n \in 0 .. MaxRawLen }

\* a body of n bytes
BodyOf(n) == [i \in 1 .. n |-> (i * 37 + n) % 256]

Bodies == { BodyOf(n) : n \in 0 .. MaxBodyLen }

\* the empty secret, "testkey", and 40 characters that make the hashed input
\* longer than one MD5 block
Secrets ==
    { <<>>,
      <<116, 101, 115, 116, 107, 101, 121>>,
      [i \in 1 .. 40 |-> 255 - i] }

CryptHeaders ==
    { TACACSHeader(192, 1, 1, 0, 1, 0),
      TACACSHeader(193, 2, 2147483647, 0, 255, 4) }

\* the secret "testkey"
TestKey == <<116, 101, 115, 116, 107, 101, 121>>

\* bodies of a packet: empty, within one hash, at and just above 16 bytes,
\* and the longest
PacketBodies == { BodyOf(n) : n \in {0, 5, 16, 17, MaxBodyLen} }

\* the header of a packet with body b: its length field set to the body's
\* length, or to something else (the constructor stores what it is given)
PacketHeaders(b) ==
    { TACACSHeader(193, 1, sid, len, 1, 0) :
        sid \in {1, 305419896}, len \in {Len(b), Len(b) + 1, 0} }

\* nothing recorded yet: no run of crypt, no earlier result, no packet made
NoLocals ==
    [exc |-> "none", pad |-> <<>>, pad_left |-> <<>>, hashes |-> 0,
     encrypted |-> FALSE, prev |-> <<>>,
     made |-> [header |-> NoHeader, body_bytes |-> <<>>, secret |-> <<-1>>]]

NoReturn == [exc |-> "none", hdr |-> NoHeader, pos |-> 0]

----------------------------------------------------------------------------
(* The header codec: a header in hand, packed, and byte strings decoded *)

InitHeader ==
    /\ op = "init"
    /\ header \in Headers
    /\ body_bytes = <<>>
    /\ secret = None
    /\ raw = <<>>
    /\ out = <<>>
    /\ ret = NoReturn
    /\ loc = NoLocals

\* header.packed
Pack ==
    /\ op = "init"
    /\ op' = "packed"
    /\ out' = packed(header)
    /\ UNCHANGED <<header, body_bytes, secret, raw, ret, loc>>

\* TACACSHeader.unpacked(r) for a byte string r
Unpack(r) ==
    /\ op = "init"
    /\ op' = "unpacked"
    /\ raw' = r
    /\ ret' = unpacked(r)
    /\ UNCHANGED <<header, body_bytes, secret, out, loc>>

\* TACACSHeader.unpacked(header.packed)
UnpackPacked ==
    /\ op = "packed"
    /\ op' = "roundtrip"
    /\ raw' = out
    /\ ret' = unpacked(out)
    /\ UNCHANGED <<header, body_bytes, secret, out, loc>>

NextHeader ==
    \/ Pack
    \/ \E r \in Raws : Unpack(r)
    \/ UnpackPacked

SpecHeader == InitHeader /\ [][NextHeader]_vars

----------------------------------------------------------------------------
(* crypt: a body obfuscated, and the result handed to crypt again *)

InitCrypt ==
    /\ op = "init"
    /\ header \in CryptHeaders
    /\ body_bytes \in Bodies
    /\ secret \in Secrets
    /\ raw = <<>>
    /\ out = <<>>
    /\ ret = NoReturn
    /\ loc = NoLocals

\* the locals and the value of a run of crypt, recorded
Recorded(r, before) ==
    /\ out' = r.value
    /\ loc' = [loc EXCEPT !.exc = r.exc, !.pad = r.pad, !.pad_left = r.pad_left,
                          !.hashes = r.hashes, !.prev = before]

\* crypt(header, body_bytes, secret)
Crypt ==
    /\ op = "init"
    /\ op' = "crypt"
    /\ Recorded(crypt_run(header, body_bytes, secret), <<>>)
    /\ UNCHANGED <<header, body_bytes, secret, raw, ret>>

\* crypt(header, out, secret): what the first call returned, handed to crypt
\* with the same header and secret
CryptAgain ==
    /\ op = "crypt"
    /\ loc.exc = "none"
    /\ op' = "crypt2"
    /\ Recorded(crypt_run(header, out, secret), out)
    /\ UNCHANGED <<header, body_bytes, secret, raw, ret>>

NextCrypt == Crypt \/ CryptAgain

SpecCrypt == InitCrypt /\ [][NextCrypt]_vars

----------------------------------------------------------------------------
(* TACACSPacket: constructed, its body read, serialized and serialized again *)

InitPacket ==
    /\ op = "init"
    /\ body_bytes \in PacketBodies
    /\ header \in PacketHeaders(body_bytes)
    /\ secret \in Secrets \cup {None}
    /\ raw = <<>>
    /\ out = <<>>
    /\ ret = NoReturn
    /\ loc = [NoLocals EXCEPT !.made = TACACSPacket(header, body_bytes, secret)]

\* packet.body, and packet.encrypted beside it
Body ==
    /\ op = "init"
    /\ op' = "body"
    /\ out' = body(TACACSPacket(header, body_bytes, secret))
    /\ loc' = [loc EXCEPT
                 !.encrypted = encrypted(TACACSPacket(header, body_bytes, secret))]
    /\ UNCHANGED <<header, body_bytes, secret, raw, ret>>

\* bytes(packet)
Bytes ==
    /\ op \in {"init", "body"}
    /\ op' = "bytes"
    /\ out' = TACACSPacket_bytes(TACACSPacket(header, body_bytes, secret))
    /\ loc' = [loc EXCEPT !.prev = <<>>]
    /\ UNCHANGED <<header, body_bytes, secret, raw, ret>>

\* bytes(packet) once more, the earlier result kept beside it
BytesAgain ==
    /\ op = "bytes"
    /\ op' = "bytes2"
    /\ out' = TACACSPacket_bytes(TACACSPacket(header, body_bytes, secret))
    /\ loc' = [loc EXCEPT !.prev = out]
    /\ UNCHANGED <<header, body_bytes, secret, raw, ret>>

NextPacket == Body \/ Bytes \/ BytesAgain

SpecPacket == InitPacket /\ [][NextPacket]_vars

----------------------------------------------------------------------------
(* The header codec's properties, under SpecHeader *)

\* the 4 bytes of b from index i on, read as an unsigned integer with the
\* most significant byte first
BigEndian(b, i) == b[i] * 16777216 + b[i + 1] * 65536 + b[i + 2] * 256 + b[i + 3]

IsBytes(b) == \A i \in 1 .. Len(b) : b[i] \in 0 .. 255

\* C1: unpacking the 12 bytes a header packs to returns a header with the
\* same version, type, session_id, length, seq_no and flags.
C1_HeaderRoundTrip ==
    op = "roundtrip" =>
        /\ ret.exc = "none"
        /\ ret.hdr.version = header.version
        /\ ret.hdr.type = header.type
        /\ ret.hdr.session_id = header.session_id
        /\ ret.hdr.length = header.length
        /\ ret.hdr.seq_no = header.seq_no
        /\ ret.hdr.flags = header.flags

C1_Witness ==
    /\ op = "roundtrip"
    /\ header = TACACSHeader(193, 1, 305419896, 2147483647, 255, 4)
    /\ ret.hdr = header

\* C2: decoding an input of 0, 1, 2 or 3 bytes raises the header decode
\* error (the ValueError with the "Unable to extract data from header"
\* message) and returns no header.
C2_ShortInputRaisesDecodeError ==
    (op = "unpacked" /\ Len(raw) < 4) =>
        (ret.exc = "ValueError" /\ ret.hdr = NoHeader)

\* C4: a header packs to exactly 12 bytes: version, type, seq_no, flags,
\* then session_id and length, each as 4 bytes with the most significant
\* first.
C4_HeaderLayout ==
    op = "packed" =>
        /\ Len(out) = 12
        /\ IsBytes(out)
        /\ out[1] = header.version
        /\ out[2] = header.type
        /\ out[3] = header.seq_no
        /\ out[4] = header.flags
        /\ BigEndian(out, 5) = header.session_id
        /\ BigEndian(out, 9) = header.length

C4_Witness ==
    /\ op = "packed"
    /\ header = TACACSHeader(193, 1, 305419896, 5, 1, 4)
    /\ out = <<193, 1, 1, 4, 18, 52, 86, 120, 0, 0, 0, 5>>

\* what decoding the bytes of raw must return when it succeeds: the four
\* byte fields from bytes 0..3, session_id and length from the 8 bytes that
\* follow, 12 bytes consumed, and nothing taken from what follows them
DecodedFromFirst12 ==
    /\ ret.exc = "none"
    /\ ret.hdr.version = raw[1]
    /\ ret.hdr.type = raw[2]
    /\ ret.hdr.seq_no = raw[3]
    /\ ret.hdr.flags = raw[4]
    /\ ret.hdr.session_id = BigEndian(raw, 5)
    /\ ret.hdr.length = BigEndian(raw, 9)
    /\ ret.pos = 12
    /\ ret = unpacked(Take(raw, 12))

\* C10, as claimed: decoding any input of at least 4 bytes succeeds, reads
\* the fields from the first 12 bytes, consumes exactly 12 bytes and does
\* not depend on the bytes after them.
C10_DecodeFrom4Bytes ==
    (op = "unpacked" /\ Len(raw) >= 4) => DecodedFromFirst12

\* C10, amended: decoding any input of at least 12 bytes succeeds, reads the
\* fields from the first 12 bytes, consumes exactly 12 bytes and does not
\* depend on the bytes after them.
C10_DecodeFrom12Bytes ==
    (op = "unpacked" /\ Len(raw) >= 12) => DecodedFromFirst12

C10_Witness ==
    /\ op = "unpacked"
    /\ Len(raw) = 14
    /\ ret.exc = "none"
    /\ ret.hdr = TACACSHeader(193, 1, 305419896, 5, 1, 0)
    /\ ret.pos = 12

----------------------------------------------------------------------------
(* crypt's properties, under SpecCrypt *)

\* the seed of the pad: session_id as 4 bytes with the most significant
\* first, the secret's bytes, the version byte, the seq_no byte
PadSeed ==
    <<header.session_id \div 16777216, (header.session_id \div 65536) % 256,
      (header.session_id \div 256) % 256, header.session_id % 256>>
        \o secret \o <<header.version>> \o <<header.seq_no>>

RECURSIVE HashChain(_, _, _, _)
\* hash_i || ... || hash_k, where hash is hash_i and each later one is the
\* MD5 of the seed followed by the hash before it
HashChain(seed, hash, i, k) ==
    IF i = k THEN hash
    ELSE hash \o Only({ HashChain(seed, nxt, i + 1, k) : nxt \in { md5(seed \o hash) } })

\* the least number of 16-byte hashes that cover n bytes, and at least one
HashesFor(n) == IF n = 0 THEN 1 ELSE (n + 15) \div 16

\* the first n bytes of hash_1 || ... || hash_k for k = HashesFor(n)
PadFor(seed, n) ==
    Only({ Take(HashChain(seed, first, 1, HashesFor(n)), n) : first \in { md5(seed) } })

\* c is a xor b, bit by bit
IsXorOf(c, a, b) ==
    c \in 0 .. 255 /\ \A k \in 0 .. 7 : Bit(c, k) <=> (Bit(a, k) # Bit(b, k))

\* C3: crypt applied to what crypt returned, with the same header and
\* secret, returns the original body byte for byte.
C3_Involution ==
    op = "crypt2" => (loc.exc = "none" /\ out = body_bytes)

C3_Witness ==
    /\ op = "crypt2"
    /\ Len(body_bytes) = 40
    /\ secret = TestKey
    /\ loc.prev # body_bytes
    /\ out = body_bytes

\* C5: the pad crypt uses for a body of n bytes is the first n bytes of the
\* chained hashes hash_1 || ... || hash_k of the seed, k the least number of
\* hashes covering n bytes, and byte i of the result is body byte i xor pad
\* byte i.
C5_PadDerivation ==
    op = "crypt" =>
        /\ loc.exc = "none"
        /\ loc.hashes = HashesFor(Len(body_bytes))
        /\ loc.pad = PadFor(PadSeed, Len(body_bytes))
        /\ Len(out) = Len(body_bytes)
        /\ \A i \in 1 .. Len(body_bytes) : IsXorOf(out[i], body_bytes[i], loc.pad[i])

C5_Witness ==
    /\ op = "crypt"
    /\ Len(body_bytes) = 40
    /\ secret = TestKey
    /\ loc.hashes = 3
    /\ Len(loc.pad) = 40
    /\ out # body_bytes

\* C6: for a body of n bytes the pad has exactly n bytes after truncation,
\* the xor loop pops every one of them without running out, and crypt
\* returns exactly n bytes.
C6_PadLength ==
    op = "crypt" =>
        /\ Len(loc.pad) = Len(body_bytes)
        /\ loc.exc = "none"
        /\ loc.pad_left = <<>>
        /\ Len(out) = Len(body_bytes)

C6_Witness ==
    /\ op = "crypt"
    /\ Len(body_bytes) = 17
    /\ loc.hashes = 2
    /\ Len(loc.pad) = 17
    /\ loc.pad_left = <<>>
    /\ Len(out) = 17

----------------------------------------------------------------------------
(* The packet's properties, under SpecPacket *)

\* C7: a packet is encrypted iff its secret is not None; without a secret
\* its body is body_bytes unchanged, and with any secret, the empty one
\* included, it is crypt(header, body_bytes, secret).
C7_SecretSelectsObfuscation ==
    op = "body" =>
        /\ loc.encrypted <=> (secret # None)
        /\ secret = None => out = body_bytes
        /\ secret # None => out = crypt(header, body_bytes, secret)

C7_Witness ==
    /\ op = "body"
    /\ secret = <<>>
    /\ loc.encrypted
    /\ Len(body_bytes) = 17
    /\ out # body_bytes

\* the body a packet transmits
Transmitted ==
    IF secret = None THEN body_bytes ELSE crypt(header, body_bytes, secret)

\* C8: the serialized packet is the 12 packed header bytes, in the clear,
\* followed at once by the transmitted body, 12 + len(body_bytes) bytes in
\* all; serializing again yields the same bytes, and the packet's header,
\* body_bytes and secret stay as constructed.
C8_Serialization ==
    op \in {"bytes", "bytes2"} =>
        /\ Len(out) = 12 + Len(body_bytes)
        /\ Take(out, 12) = packed(header)
        /\ Drop(out, 12) = Transmitted
        /\ op = "bytes2" => out = loc.prev
        /\ TACACSPacket(header, body_bytes, secret) = loc.made

C8_Witness ==
    /\ op = "bytes2"
    /\ secret = TestKey
    /\ Len(body_bytes) = 17
    /\ out = loc.prev
    /\ Drop(out, 12) # body_bytes

\* the length field of the serialized bytes and of the header both equal
\* the number of body bytes after the 12 header bytes
LengthMatchesBody ==
    /\ BigEndian(out, 9) = Len(out) - 12
    /\ header.length = Len(Drop(out, 12))

\* C9, as claimed: in the serialized bytes of every packet the header's
\* length field equals the number of body bytes that follow the header.
C9_LengthOfEveryPacket ==
    op \in {"bytes", "bytes2"} => LengthMatchesBody

\* C9, amended: in the serialized bytes of every packet whose header was
\* constructed with length = len(body_bytes), the header's length field
\* equals the number of body bytes that follow the header.
C9_LengthWhenCallerSetIt ==
    (op \in {"bytes", "bytes2"} /\ header.length = Len(body_bytes)) => LengthMatchesBody

C9_Witness ==
    /\ op = "bytes"
    /\ secret = TestKey
    /\ Len(body_bytes) = 17
    /\ header.length = 17
    /\ BigEndian(out, 9) = 17
    /\ Len(out) = 29

============================================================================
